---- MODULE Spec2Model ----
(***************************************************************************)
(* Model of facebook_bot.py: the daily posting script.  One run of the     *)
(* script checks its environment, prints the status, and then              *)
(* create_daily_posts works through the remaining post slots of the day:   *)
(* generate a text (up to 5 attempts), generate an image, publish, record. *)
(* The post log (post_log.json) is the only state that survives a run.     *)
(***************************************************************************)
EXTENDS Integers, Sequences, FiniteSets, TLC

\* ---------------------------------------------------------------- bounds
MaxDay == 2          \* calendar dates 1..MaxDay
MaxText == 1         \* distinct non-empty texts the generator can return
MaxRuns == 2         \* runs of the script

\* ------------------------------------------------------ program constants
DAILY_POST_LIMIT == 3
MAX_TEXT_ATTEMPTS == 5
None == 0            \* Python's None (and every other falsy return value)

Days == 1..MaxDay
Texts == 1..MaxText

\* get_post_themes(): the fixed list of eight themes
get_post_themes ==
    << "independence movements and freedom fighters",
       "colonial resistance and liberation struggles",
       "post-independence achievements and challenges",
       "cultural preservation during colonial period",
       "economic developments and trade history",
       "educational and intellectual movements",
       "women's roles in African history",
       "Pan-African movements and unity efforts" >>

\* generate_text: selected_theme = themes[(post_number - 1) % len(themes)]
\* (Python lists are 0-based, TLA+ sequences 1-based)
selected_theme(post_number) ==
    get_post_themes[((post_number - 1) % Len(get_post_themes)) + 1]

\* hashlib.sha256(message).hexdigest(): deterministic, and free of
\* collisions on the texts of the model
sha256(message) == (message * 7 + 3) % 32

\* Python values that meet in a comparison carry their type
PyStr(s) == [type |-> "str", val |-> s]
PyDict(hash, post_number, timestamp) ==
    [type |-> "dict", hash |-> hash, post_number |-> post_number,
     timestamp |-> timestamp]

\* Python ==: values of different types are never equal
PyEq(a, b) == a.type = b.type /\ a = b

\* x in list
PyInList(x, list) == \E i \in DOMAIN list : PyEq(x, list[i])

\* ------------------------------------------------------------ the log file
\* post_log.json: absent, holding a JSON document, or left truncated by a
\* write that failed part-way
EmptyDict == [d \in {} |-> <<>>]
NoFile == [exists |-> FALSE, valid |-> TRUE, data |-> EmptyDict]
TruncatedFile == [exists |-> TRUE, valid |-> FALSE, data |-> EmptyDict]
FileWith(data) == [exists |-> TRUE, valid |-> TRUE, data |-> data]

\* load_log() raises when the file exists and is not a JSON document
load_log_raises(file) == file.exists /\ ~file.valid

\* load_log(): the parsed document, or {} when the file does not exist
load_log(file) == IF file.exists THEN file.data ELSE EmptyDict

\* already_posted(message): post_hash in data[today], where data[today] is
\* the list of record dicts and post_hash is a string
already_posted(message, data, today) ==
    LET post_hash == PyStr(sha256(message))
    IN  today \in DOMAIN data /\ PyInList(post_hash, data[today])

\* a document that keeps only the new record under today's date
mark_posted_data_replacing(message, post_number, data, today) ==
    [d \in DOMAIN data \cup {today} |->
        IF d = today THEN << PyDict(sha256(message), post_number, today) >>
        ELSE data[d]]

\* mark_posted(message, post_number): the document that save_log is given
mark_posted_data(message, post_number, data, today) ==
    LET d1 == IF today \in DOMAIN data THEN data
              ELSE [d \in DOMAIN data \cup {today} |->
                       IF d = today THEN <<>> ELSE data[d]]
    IN  [d1 EXCEPT ![today] =
            Append(@, PyDict(sha256(message), post_number, today))]

\* today in data
today_has(data, today) == today \in DOMAIN data

\* a count that looks under a key the log never has
count_posts_today_wrong_key(data, today) == 0

\* count_posts_today(): len(data.get(today, []))
count_posts_today(data, today) ==
    IF today \in DOMAIN data THEN Len(data[today]) ELSE 0


\* if value: None, "" and {} are falsy
truthy(value) == value # None

\* create_daily_posts: remaining_posts = DAILY_POST_LIMIT - posts_today
remaining(posts) == DAILY_POST_LIMIT - posts

\* create_daily_posts: if remaining_posts <= 0: return
quota_used_up(remaining_posts) == remaining_posts <= 0

\* a loop that runs one slot too far
slot_range_one_too_far(posts) == (posts + 1)..(DAILY_POST_LIMIT + 1)

\* create_daily_posts: range(posts_today + 1, DAILY_POST_LIMIT + 1)
slot_range(posts) == (posts + 1)..DAILY_POST_LIMIT

\* a test that forgets to look at the candidate itself
accepts_without_text(candidate, data, today) ==
    ~already_posted(candidate, data, today)

\* create_daily_posts: if candidate_text and not already_posted(candidate_text)
accepts(candidate, data, today) ==
    truthy(candidate) /\ ~already_posted(candidate, data, today)

\* post_to_facebook: /photos with caption and url when image_url is truthy,
\* /feed with the message alone otherwise
fb_request(message, img) ==
    IF truthy(img)
    THEN [endpoint |-> "photos", message |-> message, url |-> img]
    ELSE [endpoint |-> "feed", message |-> message, url |-> None]

\* a record written whatever post_to_facebook returned
publish_succeeded_always(res) == TRUE

\* create_daily_posts: if result: mark_posted(...)
publish_succeeded(res) == truthy(res)

\* a slot given up when there is no image
stage_after_image_required(img) == IF truthy(img) THEN "publish" ELSE "loop"

\* create_daily_posts, lines 226-231: a missing image only logs a warning,
\* the next statement is the call of post_to_facebook either way
stage_after_image(img) == "publish"

\* generate_image: the first output url when the prediction succeeded, None
\* for no output, a failed prediction, 30 polls without an end, an exception
generate_image(outcome) == IF outcome = "succeeded" THEN 1 ELSE None

\* generate_image: max_attempts = 30
max_attempts == 30

\* a polling loop that goes on until the prediction has ended
poll_loop_until_ended(attempt, pending) == attempt + pending + 1

\* generate_image: for attempt in range(max_attempts), with `pending` answers
\* of a status that is neither "succeeded" nor "failed" before one that ends
\* the loop; the value is the number of status requests made
RECURSIVE poll_loop(_, _)
poll_loop(attempt, pending) ==
    IF attempt >= max_attempts THEN attempt
    ELSE IF pending = 0 THEN attempt + 1
    ELSE poll_loop(attempt + 1, pending - 1)

\* the prediction ends at once, at the last poll, just too late, or later
Pendings == {0, max_attempts - 1, max_attempts, max_attempts + 1}

\* post_to_facebook: the response when it carries an id, None otherwise
post_to_facebook(outcome) == IF outcome = "id" THEN 1 ELSE None

\* an exception of mark_posted caught and dropped
mark_posted_swallowed(outcome) == FALSE

\* an exception of mark_posted is not caught anywhere
mark_posted_propagates(outcome) == outcome # "ok"

\* a reading of the log that raised and was caught and dropped
load_error_swallowed(raised) == FALSE

\* count_posts_today, already_posted, show_status: nothing catches what
\* load_log raises
load_error_propagates(raised) == raised

\* __main__: required_vars
required_vars ==
    {"FB_PAGE_ACCESS_TOKEN", "FB_PAGE_ID", "GROQ_API_KEY", "REPLICATE_API_KEY"}

\* os.getenv(var): None for a variable that is not set, or its value
NotSet == "<not set>"
EnvValues == {NotSet, "", "value"}
\* os.environ at the start: every variable set, or one of them unset or
\* empty, or none of them set
Environments ==
    {environ \in [required_vars -> EnvValues] :
        \/ \A var \in required_vars : environ[var] = NotSet
        \/ \E var \in required_vars :
              \A other \in required_vars \ {var} : environ[other] = "value"}

\* a test that takes an empty value for a set one
is_missing_when_unset(value) == value = NotSet

\* __main__: not os.getenv(var)
is_missing(value) == value = NotSet \/ value = ""

\* __main__: missing_vars = [var for var in required_vars if not os.getenv(var)]
missing_vars(environ) == {var \in required_vars : is_missing(environ[var])}

\* ------------------------------------------------------------------ state
VARIABLES
    day,              \* datetime.date.today()
    post_log,         \* the file post_log.json
    pc,               \* where the run of the script is
    posts_today, remaining_posts, successful_posts,   \* create_daily_posts
    post_num, attempt, candidate_text, text,          \* locals of its loops
    image_url, result,
    logged,           \* the last line logged about the current slot
    request,          \* history: the request post_to_facebook sent in this slot
    slot,             \* history: calls made for the current slot
    calls,            \* history: calls made by this run
    runs,             \* history: how often the script was started
    env,              \* os.environ of the running process
    polls,            \* history: status requests of the generate_image call
                      \* that has just returned
    inv,              \* create_daily_posts running in two processes at once
    tally             \* history: what those two processes did

vars == << day, post_log, pc, posts_today, remaining_posts, successful_posts,
           post_num, attempt, candidate_text, text, image_url, result,
           logged, request, slot, calls, runs, env, inv, tally, polls >>

locals == << posts_today, remaining_posts, successful_posts,
             post_num, attempt, candidate_text, text, image_url, result >>

history == << logged, request, slot, calls >>

\* two processes that run create_daily_posts against the same post_log.json
Procs == {"first", "second"}
NotStarted ==
    [pc |-> "idle", posts_today |-> 0, post_num |-> 0, text |-> None,
     data |-> EmptyDict]
NoTally ==
    [published |-> 0, stored |-> 0, overlapped |-> FALSE,
     store_failed |-> FALSE]
Active(p) == inv[p].pc \in {"loop", "marking", "saving"}

NoSlotCalls == [image |-> 0, publish |-> 0, mark |-> 0]
NoCalls == [text |-> FALSE, image |-> 0, publish |-> 0, mark |-> 0,
            read |-> FALSE, read_failed |-> FALSE]
NoRequest == [endpoint |-> "none", message |-> None, url |-> None]

Running == {"main", "status", "create", "loop", "gen", "image", "publish",
            "record"}
Ended == {"idle", "exit1", "returned", "done", "crashed", "killed"}

\* a process that has not looked at anything yet
Fresh ==
    /\ posts_today' = 0 /\ remaining_posts' = 0 /\ successful_posts' = 0
    /\ post_num' = 0 /\ attempt' = 0
    /\ candidate_text' = None /\ text' = None
    /\ image_url' = None /\ result' = None
    /\ logged' = "none" /\ request' = NoRequest
    /\ slot' = NoSlotCalls /\ calls' = NoCalls
    /\ polls' = 0

Init ==
    /\ day = 1
    /\ post_log = NoFile
    /\ pc = "idle"
    /\ posts_today = 0 /\ remaining_posts = 0 /\ successful_posts = 0
    /\ post_num = 0 /\ attempt = 0
    /\ candidate_text = None /\ text = None
    /\ image_url = None /\ result = None
    /\ logged = "none" /\ request = NoRequest
    /\ slot = NoSlotCalls /\ calls = NoCalls
    /\ runs = 0
    /\ env = [var \in required_vars |-> NotSet]
    /\ polls = 0
    /\ inv = [p \in Procs |-> NotStarted]
    /\ tally = NoTally

\* the script is started (by hand or by an outside timer); runs never overlap
Invoke ==
    /\ pc \in Ended
    /\ runs < MaxRuns
    /\ runs' = runs + 1
    /\ pc' = "main"
    /\ Fresh
    /\ env' \in Environments
    /\ UNCHANGED << day, post_log, inv, tally >>

\* __main__, lines 271-276: exit(1) when a required variable is missing
CheckEnv ==
    /\ pc = "main"
    /\ pc' = IF missing_vars(env) # {} THEN "exit1" ELSE "status"
    /\ UNCHANGED << day, post_log, locals, history, runs, env, inv, tally, polls >>

\* show_status(): reads the log (count_posts_today, load_log) and prints
ShowStatus ==
    /\ pc = "status"
    /\ \E io_ok \in BOOLEAN :
          LET raised == ~io_ok \/ load_log_raises(post_log)
          IN  /\ pc' = IF load_error_propagates(raised)
                       THEN "crashed" ELSE "create"
              /\ calls' = [calls EXCEPT !.read = TRUE,
                                        !.read_failed = @ \/ raised]
    /\ UNCHANGED << day, post_log, locals, logged, request, slot, runs, env, inv, tally, polls >>

\* create_daily_posts, lines 196-205: the quota check
StartPosts ==
    /\ pc = "create"
    /\ \E io_ok \in BOOLEAN :
          LET raised == ~io_ok \/ load_log_raises(post_log)
          IN
          /\ calls' = [calls EXCEPT !.read = TRUE,
                                    !.read_failed = @ \/ raised]
          /\ IF load_error_propagates(raised)
             THEN pc' = "crashed" /\ UNCHANGED locals
             ELSE
               LET n == count_posts_today(load_log(post_log), day)
               IN  /\ posts_today' = n
                   /\ remaining_posts' = remaining(n)
                   /\ pc' = IF quota_used_up(remaining(n))
                            THEN "returned" ELSE "loop"
                   /\ successful_posts' = 0
                   /\ post_num' = n
                   /\ UNCHANGED << attempt, candidate_text, text, image_url,
                                   result >>
    /\ UNCHANGED << day, post_log, logged, request, slot, runs, env, inv, tally, polls >>

\* lines 207-211: the for loop takes the next post_num of its range, or ends
LoopNext ==
    /\ pc = "loop"
    /\ IF post_num + 1 \in slot_range(posts_today)
       THEN /\ pc' = "gen"
            /\ post_num' = post_num + 1
            /\ attempt' = 0
            /\ candidate_text' = None /\ text' = None
            /\ image_url' = None /\ result' = None
            /\ logged' = "working"
            /\ request' = NoRequest
            /\ slot' = NoSlotCalls
            /\ polls' = 0
       ELSE /\ pc' = "done"
            /\ UNCHANGED << post_num, attempt, candidate_text, text, image_url,
                            result, logged, request, slot, polls >>
    /\ UNCHANGED << day, post_log, posts_today, remaining_posts,
                    successful_posts, calls, runs, env, inv, tally >>

\* lines 212-223: one attempt of the content loop.  generate_text returns a
\* text, or None after an error; already_posted reads the log
TryText ==
    /\ pc = "gen"
    /\ \E candidate \in {None} \cup Texts, io_ok \in BOOLEAN :
          LET reads == truthy(candidate)
              raised == reads /\ (~io_ok \/ load_log_raises(post_log))
          IN
          /\ candidate_text' = candidate
          /\ calls' = [calls EXCEPT !.text = TRUE,
                                    !.read = @ \/ reads,
                                    !.read_failed = @ \/ raised]
          /\ IF load_error_propagates(raised)
             THEN /\ pc' = "crashed"
                  /\ UNCHANGED << attempt, text, logged >>
             ELSE IF accepts(candidate, load_log(post_log), day)
             THEN /\ text' = candidate
                  /\ pc' = "image"
                  /\ attempt' = 0      \* break: the counter is not read again
                  /\ UNCHANGED logged
             ELSE /\ attempt' = attempt + 1
                  /\ UNCHANGED text
                  /\ IF attempt + 1 < MAX_TEXT_ATTEMPTS
                     THEN pc' = "gen" /\ logged' = "regenerating"
                     ELSE pc' = "loop" /\ logged' = "no unique content"
    /\ UNCHANGED << day, post_log, posts_today, remaining_posts,
                    successful_posts, post_num, image_url, result,
                    request, slot, runs, env, inv, tally, polls >>

ImageOutcomes == {"succeeded", "no output", "failed", "timed out", "exception"}

\* generate_image: what the call can return after `pending` unfinished
\* answers: "timed out" when the loop ran out, a final status otherwise; a
\* request can raise at any point
image_outcomes(pending) ==
    {outcome \in ImageOutcomes :
        \/ outcome = "exception"
        \/ outcome = "timed out" /\ pending >= max_attempts
        \/ outcome \in {"succeeded", "no output", "failed"}
              /\ pending < max_attempts}

PublishOutcomes == {"id", "no id", "http error", "exception"}
StoreOutcomes == {"ok", "read error", "open error", "write error"}

\* lines 226-228: generate_image(text[:120])
MakeImage ==
    /\ pc = "image"
    /\ \E pending \in Pendings : \E outcome \in image_outcomes(pending) :
          LET img == generate_image(outcome)
          IN  /\ image_url' = img
              /\ polls' = poll_loop(0, pending)
              /\ pc' = stage_after_image(img)
              /\ logged' = IF truthy(img) THEN logged ELSE "no image"
    /\ slot' = [slot EXCEPT !.image = @ + 1]
    /\ calls' = [calls EXCEPT !.image = @ + 1]
    /\ UNCHANGED << day, post_log, posts_today, remaining_posts,
                    successful_posts, post_num, attempt, candidate_text, text,
                    result, request, runs, env, inv, tally >>

\* lines 231-232 and 241-242: post_to_facebook(text, image_url, post_num)
Publish ==
    /\ pc = "publish"
    /\ \E outcome \in PublishOutcomes :
          LET res == post_to_facebook(outcome)
          IN  /\ result' = res
              /\ IF publish_succeeded(res)
                 THEN pc' = "record" /\ logged' = "posted"
                 ELSE pc' = "loop" /\ logged' = "failed to post"
    /\ request' = fb_request(text, image_url)
    /\ slot' = [slot EXCEPT !.publish = @ + 1]
    /\ calls' = [calls EXCEPT !.publish = @ + 1]
    /\ UNCHANGED << day, post_log, posts_today, remaining_posts,
                    successful_posts, post_num, attempt, candidate_text, text,
                    image_url, runs, env, inv, tally >>
    /\ polls' = 0

\* lines 233-240: mark_posted(text, post_num), then the success bookkeeping.
\* mark_posted reads the log, appends the record and rewrites the file; the
\* file is left as it was when reading or opening fails, and truncated when
\* the write fails part-way
Record ==
    /\ pc = "record"
    /\ \E outcome \in StoreOutcomes :
          /\ outcome = "ok" => ~load_log_raises(post_log)
          /\ calls' = [calls EXCEPT !.mark = @ + 1,
                                    !.read = TRUE,
                                    !.read_failed =
                                        @ \/ outcome = "read error"]
          /\ post_log' =
                CASE outcome = "ok" ->
                        FileWith(mark_posted_data(text, post_num,
                                                  load_log(post_log), day))
                  [] outcome = "write error" -> TruncatedFile
                  [] OTHER -> post_log
          /\ IF mark_posted_propagates(outcome)
             THEN /\ pc' = "crashed"
                  /\ UNCHANGED << successful_posts, logged >>
             ELSE /\ pc' = "loop"
                  /\ successful_posts' = successful_posts + 1
                  /\ logged' = "completed"
    /\ slot' = [slot EXCEPT !.mark = @ + 1]
    /\ UNCHANGED << day, posts_today, remaining_posts, post_num, attempt,
                    candidate_text, text, image_url, result, request, runs, env, inv, tally,
                    polls >>

\* the process is stopped from outside while it runs
Abort ==
    /\ pc \in Running
    /\ pc' = "killed"
    /\ Fresh
    /\ UNCHANGED << day, post_log, runs, env, inv, tally >>

\* midnight passes.  The script reads the date where it counts the posts of
\* today, where it tests a candidate and where it records a post; a midnight
\* that falls elsewhere gives the same run as one at the next of these points
Tick ==
    /\ day < MaxDay
    /\ pc \in Ended \cup {"loop", "image", "record"}
    /\ day' = day + 1
    /\ UNCHANGED << post_log, pc, locals, history, runs, env, inv, tally, polls >>

Next ==
    \/ Invoke
    \/ CheckEnv
    \/ ShowStatus
    \/ StartPosts
    \/ LoopNext
    \/ TryText
    \/ MakeImage
    \/ Publish
    \/ Record
    \/ Abort
    \/ Tick

Spec == Init /\ [][Next]_vars

\* ------------------------------------------------- overlapping invocations
single_run == << pc, posts_today, remaining_posts, successful_posts, post_num,
                attempt, candidate_text, text, image_url, result, logged,
                request, slot, calls, runs, env, polls >>

\* lines 196-205 in process p: the count of today's records, and the return
\* when the quota is used up
StartIn(p) ==
    /\ inv[p].pc = "idle"
    /\ IF load_log_raises(post_log)
       THEN inv' = [inv EXCEPT ![p].pc = "crashed"]
       ELSE LET n == count_posts_today(load_log(post_log), day)
            IN  inv' = [inv EXCEPT
                          ![p].posts_today = n,
                          ![p].post_num = n,
                          ![p].pc = IF quota_used_up(remaining(n))
                                    THEN "returned" ELSE "loop"]
    /\ tally' = [tally EXCEPT
                   !.overlapped = @ \/ \E q \in Procs \ {p} : Active(q)]
    /\ UNCHANGED << day, post_log, single_run >>

\* lines 207-232 and 241-242 in process p: the next slot of the for loop up
\* to the answer of post_to_facebook, with the content loop taken as one step
\* that ends with an accepted text or with none
SlotIn(p) ==
    /\ inv[p].pc = "loop"
    /\ IF inv[p].post_num + 1 \notin slot_range(inv[p].posts_today)
       THEN inv' = [inv EXCEPT ![p].pc = "done"] /\ UNCHANGED tally
       ELSE \E candidate \in {None} \cup Texts, outcome \in PublishOutcomes :
              IF truthy(candidate) /\ load_log_raises(post_log)
              THEN inv' = [inv EXCEPT ![p].pc = "crashed"] /\ UNCHANGED tally
              ELSE IF ~accepts(candidate, load_log(post_log), day)
              THEN /\ inv' = [inv EXCEPT ![p].post_num = @ + 1]
                   /\ UNCHANGED tally
              ELSE IF publish_succeeded(post_to_facebook(outcome))
              THEN /\ inv' = [inv EXCEPT ![p].post_num = @ + 1,
                                         ![p].text = candidate,
                                         ![p].pc = "marking"]
                   /\ tally' = [tally EXCEPT !.published = @ + 1]
              ELSE /\ inv' = [inv EXCEPT ![p].post_num = @ + 1]
                   /\ UNCHANGED tally
    /\ UNCHANGED << day, post_log, single_run >>

\* mark_posted line 44 in process p: data = load_log()
LoadIn(p) ==
    /\ inv[p].pc = "marking"
    /\ inv' = IF load_log_raises(post_log)
              THEN [inv EXCEPT ![p].pc = "crashed"]
              ELSE [inv EXCEPT ![p].data = load_log(post_log),
                               ![p].pc = "saving"]
    /\ UNCHANGED << day, post_log, tally, single_run >>

SaveOutcomes == StoreOutcomes \ {"read error"}

\* mark_posted lines 45-56 in process p: the record is appended to the
\* document read before, and save_log rewrites the file with it
SaveIn(p) ==
    /\ inv[p].pc = "saving"
    /\ \E outcome \in SaveOutcomes :
          /\ post_log' =
                CASE outcome = "ok" ->
                        FileWith(mark_posted_data(inv[p].text, inv[p].post_num,
                                                  inv[p].data, day))
                  [] outcome = "write error" -> TruncatedFile
                  [] OTHER -> post_log
          /\ inv' = [inv EXCEPT
                       ![p].data = EmptyDict,
                       ![p].text = None,
                       ![p].pc = IF mark_posted_propagates(outcome)
                                 THEN "crashed" ELSE "loop"]
          /\ tally' = [tally EXCEPT
                         !.stored = IF outcome = "ok" THEN @ + 1 ELSE @,
                         !.store_failed = @ \/ outcome # "ok"]
    /\ UNCHANGED << day, single_run >>

NextOverlap ==
    \/ \E p \in Procs : StartIn(p)
    \/ \E p \in Procs : SlotIn(p)
    \/ \E p \in Procs : LoadIn(p)
    \/ \E p \in Procs : SaveIn(p)

SpecOverlap == Init /\ [][NextOverlap]_vars

\* a started run goes on: every call of the program returns, and the
\* interpreter takes the next step
Fairness ==
    /\ WF_vars(CheckEnv) /\ WF_vars(ShowStatus) /\ WF_vars(StartPosts)
    /\ WF_vars(LoopNext) /\ WF_vars(TryText) /\ WF_vars(MakeImage)
    /\ WF_vars(Publish) /\ WF_vars(Record)

\* post_log.json after `records` calls of mark_posted on the first day
RECURSIVE log_with(_)
log_with(records) ==
    IF records = 0 THEN EmptyDict
    ELSE mark_posted_data(1, records, log_with(records - 1), 1)

\* the files a run can find: none, a truncated one, one to three records
StartLogs ==
    {NoFile, TruncatedFile}
        \cup {FileWith(log_with(records)) : records \in 1..DAILY_POST_LIMIT}

\* the last run of the script, started on one of these files
InitLastRun ==
    /\ day = 1
    /\ post_log \in StartLogs
    /\ pc = "idle"
    /\ posts_today = 0 /\ remaining_posts = 0 /\ successful_posts = 0
    /\ post_num = 0 /\ attempt = 0
    /\ candidate_text = None /\ text = None
    /\ image_url = None /\ result = None
    /\ logged = "none" /\ request = NoRequest
    /\ slot = NoSlotCalls /\ calls = NoCalls
    /\ runs = MaxRuns - 1
    /\ env = [var \in required_vars |-> NotSet]
    /\ polls = 0
    /\ inv = [p \in Procs |-> NotStarted]
    /\ tally = NoTally

FairSpec == InitLastRun /\ [][Next]_vars /\ Fairness

TypeOK ==
    /\ day \in Days
    /\ pc \in Running \cup Ended
    /\ text \in {None} \cup Texts
    /\ attempt \in 0..MAX_TEXT_ATTEMPTS

\* ----------------------------------------------------------- properties
Readable == ~load_log_raises(post_log)
Data == load_log(post_log)

\* the number of records the log holds under a date
RecordsOn(d) == IF d \in DOMAIN Data THEN Len(Data[d]) ELSE 0
TodayCount == RecordsOn(day)

\* the message has a record under today's date (exact match of the hash)
recorded_today(message) ==
    /\ today_has(Data, day)
    /\ \E i \in DOMAIN Data[day] : Data[day][i].hash = sha256(message)

\* a candidate the content loop is meant to take
usable(candidate) == truthy(candidate) /\ ~recorded_today(candidate)

C1_Bound == \A d \in DOMAIN post_log.data :
                Len(post_log.data[d]) <= DAILY_POST_LIMIT

C1_QuotaStep ==
    (pc = "create" /\ pc' \in {"loop", "returned"}) =>
        /\ posts_today' = TodayCount
        /\ remaining_posts' = DAILY_POST_LIMIT - TodayCount
        /\ ~calls'.text /\ calls'.image = 0 /\ calls'.publish = 0

\* C1: no date ever holds more than DAILY_POST_LIMIT records, and each run
\* takes its quota from the log's count for today before it generates anything
C1_DailyLimit == [] C1_Bound /\ [][C1_QuotaStep]_vars

\* a second run found the day full and returned
C1_Witness ==
    /\ runs = 2 /\ pc = "returned"
    /\ Readable /\ today_has(Data, day) /\ Len(Data[day]) = DAILY_POST_LIMIT

\* C2: no two records of one date carry the same hash
C2_NoDuplicateHash ==
    \A d \in DOMAIN post_log.data :
       \A i, j \in DOMAIN post_log.data[d] :
          i # j => post_log.data[d][i].hash # post_log.data[d][j].hash

\* nothing was generated, published or stored
C3_NoWork(made) ==
    ~made.text /\ made.image = 0 /\ made.publish = 0 /\ made.mark = 0

C3_Step ==
    (pc = "create" /\ Readable /\ TodayCount >= DAILY_POST_LIMIT) =>
        /\ pc' \in {"returned", "crashed", "killed"}
        /\ post_log' = post_log
        /\ C3_NoWork(calls')

C3_Returned ==
    pc = "returned" =>
        /\ posts_today >= DAILY_POST_LIMIT
        /\ C3_NoWork(calls) /\ slot = NoSlotCalls /\ request = NoRequest

\* C3: a run that finds DAILY_POST_LIMIT records for today generates nothing,
\* publishes nothing, writes nothing, and returns
C3_NothingWhenFull == [] C3_Returned /\ [][C3_Step]_vars

C3_Witness == pc = "returned" /\ posts_today = DAILY_POST_LIMIT /\ runs = 2

\* C4: two records of the same or of consecutive dates never share a theme
C4_TopicWindow ==
    \A d1, d2 \in DOMAIN post_log.data :
       \A i \in DOMAIN post_log.data[d1], j \in DOMAIN post_log.data[d2] :
          (<<d1, i>> # <<d2, j>> /\ d1 - d2 \in {-1, 0, 1}) =>
              selected_theme(post_log.data[d1][i].post_number)
                 # selected_theme(post_log.data[d2][j].post_number)

C5_Step ==
    (pc = "gen" /\ pc' \notin {"crashed", "killed"}) =>
        /\ attempt < MAX_TEXT_ATTEMPTS
        /\ IF usable(candidate_text')
           THEN pc' = "image" /\ text' = candidate_text'
           ELSE pc' # "image" /\ attempt' = attempt + 1 /\ text' = None

\* C5: the content loop makes at most 5 attempts, takes the first candidate
\* that is a text not yet recorded today, and tries again on anything else
C5_ContentLoop == [][C5_Step]_vars

C6_Step ==
    (/\ pc = "gen" /\ attempt = MAX_TEXT_ATTEMPTS - 1
     /\ pc' \notin {"crashed", "killed"}
     /\ ~usable(candidate_text')) =>
        /\ pc' = "loop" /\ text' = None
        /\ slot' = NoSlotCalls /\ post_log' = post_log

\* C6: when the fifth candidate too is nothing or a duplicate the slot is
\* skipped: no image, no publish, no record
C6_SlotSkipped == [][C6_Step]_vars

C7_FailStep ==
    (pc = "publish" /\ pc' # "killed" /\ ~truthy(result')) =>
        /\ pc' = "loop"
        /\ post_log' = post_log
        /\ successful_posts' = successful_posts
        /\ slot'.mark = 0

C7_LaterRun ==
    (pc = "create" /\ pc' \notin {"crashed", "killed"}
     /\ TodayCount < DAILY_POST_LIMIT) =>
        /\ pc' = "loop"
        /\ remaining_posts' = DAILY_POST_LIMIT - TodayCount
        /\ post_num' = TodayCount

C7_Attempts ==
    (pc = "loop" /\ post_num = posts_today /\ pc' # "killed" /\ day' = day) =>
        pc' = "gen"

\* C7: a failed publish writes no record and leaves today's count as it was,
\* and a later run that finds the count below the limit works on a slot again
C7_PublishFailure ==
    [][C7_FailStep]_vars /\ [][C7_LaterRun]_vars /\ [][C7_Attempts]_vars

\* a publish has failed, nothing was recorded for the slot, quota is left
C7_Witness ==
    /\ pc = "loop" /\ logged = "failed to post" /\ result = None
    /\ slot.publish = 1 /\ slot.mark = 0
    /\ Readable /\ TodayCount < DAILY_POST_LIMIT

\* the file mark_posted writes when nothing fails
C8_Stored == FileWith(mark_posted_data(text, post_num, Data, day))

C8_Step ==
    (pc = "record" /\ pc' \notin {"record", "killed"}
     /\ (~Readable \/ post_log' # C8_Stored)) =>
        /\ pc' = "crashed"
        /\ successful_posts' = successful_posts
        /\ logged' # "completed"
        /\ post_log' \in {post_log, TruncatedFile}

C8_Counted == successful_posts <= calls.mark
                 /\ (pc = "crashed" => logged # "completed")

\* C8: when mark_posted fails after a successful publish the run ends with
\* the exception: the post is not reported as completed, not counted in
\* successful_posts, and no record of it is stored
C8_StoreFailure == [] C8_Counted /\ [][C8_Step]_vars

\* the publish succeeded, mark_posted was called and the run crashed
C8_Witness ==
    /\ pc = "crashed" /\ truthy(result)
    /\ slot.publish = 1 /\ slot.mark = 1 /\ logged = "posted"

C9_ImageStep ==
    (pc = "image" /\ pc' \notin {"image", "killed"} /\ ~truthy(image_url')) =>
        /\ pc' = "publish"
        /\ text' = text /\ truthy(text)

C9_PublishStep ==
    (pc = "publish" /\ pc' # "killed") =>
        /\ slot'.publish = 1
        /\ request'.message = text
        /\ ~truthy(image_url) =>
              (request'.endpoint = "feed" /\ request'.url = None)
        /\ truthy(result') => pc' = "record"

\* C9: without an image the slot goes on: post_to_facebook is called once,
\* with the accepted text and no image, and a success is recorded
C9_ImageOptional ==
    [][C9_ImageStep]_vars /\ [][C9_PublishStep]_vars /\ [](slot.publish <= 1)

\* a text-only post was published and recorded
C9_Witness ==
    /\ pc = "loop" /\ logged = "completed" /\ image_url = None
    /\ request.endpoint = "feed" /\ request.message = text
    /\ slot.mark = 1

C10_Order ==
    /\ pc \in {"image", "publish", "record"} => truthy(text)
    /\ pc = "image" => slot = NoSlotCalls
    /\ pc = "publish" => slot = [image |-> 1, publish |-> 0, mark |-> 0]
    /\ pc = "record" =>
          /\ slot = [image |-> 1, publish |-> 1, mark |-> 0]
          /\ truthy(result) /\ request.message = text
    /\ slot.mark > 0 => (slot.publish = 1 /\ truthy(result))

C10_RecordStep ==
    (post_log' # post_log /\ post_log'.valid) =>
        /\ pc = "record" /\ truthy(result) /\ truthy(request.message)
        /\ LET recs == post_log'.data[day]
           IN  /\ recs[Len(recs)].hash = sha256(request.message)
               /\ recs[Len(recs)].post_number = post_num

\* C10: within a slot the stages come in the order text, image, publish,
\* record, and a record is only ever written for the text of a publish that
\* returned a post id just before
C10_StageOrder == [] C10_Order /\ [][C10_RecordStep]_vars

\* a record written after its publish
C10_Witness ==
    /\ pc = "loop" /\ logged = "completed" /\ truthy(result)
    /\ Readable /\ today_has(Data, day)
    /\ Data[day][Len(Data[day])].hash = sha256(request.message)

\* C11: under every date the post numbers start at 1 and strictly increase
\* in the order the records were appended
C11_SequenceNumbers ==
    \A d \in DOMAIN post_log.data :
       LET recs == post_log.data[d]
       IN  /\ Len(recs) > 0 => recs[1].post_number = 1
           /\ \A i \in 1..(Len(recs) - 1) :
                 recs[i].post_number < recs[i + 1].post_number

C12_Step ==
    (pc = "record" /\ pc' \notin {"record", "killed"}) =>
        /\ \A d \in DOMAIN post_log.data :
              /\ d \in DOMAIN post_log'.data
              /\ Len(post_log'.data[d]) >= Len(post_log.data[d])
              /\ SubSeq(post_log'.data[d], 1, Len(post_log.data[d]))
                    = post_log.data[d]
        /\ pc' = "loop" =>
              /\ day \in DOMAIN post_log'.data
              /\ Len(post_log'.data[day]) = RecordsOn(day) + 1

\* C12: a call of mark_posted, whether it succeeds or fails, keeps every
\* record the log held, unchanged and in order, and a successful call adds
\* exactly one record under today's date
C12_AppendOnly == [][C12_Step]_vars

\* C14: a run of the script makes at most one publish call, appends at most
\* one record and works on one slot only
C14_OneCycle ==
    /\ calls.publish <= 1
    /\ calls.mark <= 1
    /\ pc \in {"gen", "image", "publish", "record"} =>
          post_num = posts_today + 1

\* C14 as amended: a run works through the slots the day has left, one
\* publish call and one record at most for each of them
C14_RemainingSlots ==
    /\ pc \in {"loop", "gen", "image", "publish", "record", "done"} =>
          /\ post_num - posts_today <= DAILY_POST_LIMIT - posts_today
          /\ calls.publish <= post_num - posts_today
    /\ calls.publish <= DAILY_POST_LIMIT
    /\ calls.mark <= calls.publish
    /\ successful_posts <= calls.mark
    /\ slot.publish <= 1 /\ slot.mark <= 1

\* one run published and recorded all three posts of the day
C14_Witness ==
    /\ pc = "done" /\ posts_today = 0
    /\ calls.publish = DAILY_POST_LIMIT /\ calls.mark = DAILY_POST_LIMIT
    /\ successful_posts = DAILY_POST_LIMIT

\* C17: the records of one date all come from different themes
C17_DailyVariety ==
    \A d \in DOMAIN post_log.data :
       \A i, j \in DOMAIN post_log.data[d] :
          i # j => selected_theme(post_log.data[d][i].post_number)
                      # selected_theme(post_log.data[d][j].post_number)


C13_Configured == \A var \in required_vars : env[var] \notin {NotSet, ""}

C13_ExitStep ==
    (pc = "main" /\ pc' # "killed" /\ ~C13_Configured) =>
        /\ pc' = "exit1"
        /\ post_log' = post_log
        /\ calls' = NoCalls /\ slot' = NoSlotCalls /\ request' = NoRequest

C13_NothingDone ==
    /\ pc = "exit1" =>
          /\ ~calls.read /\ ~calls.text
          /\ calls.image = 0 /\ calls.publish = 0 /\ calls.mark = 0
    /\ pc \in Running \ {"main"} => C13_Configured

\* C13: a run started with one of the four required variables unset or empty
\* exits with status 1 before it reads the log, generates anything or
\* publishes, and no stage of a run is entered without all four
C13_MissingEnvironment == []C13_NothingDone /\ [][C13_ExitStep]_vars

C13_Witness ==
    /\ pc = "exit1"
    /\ env["GROQ_API_KEY"] = ""
    /\ \A var \in required_vars \ {"GROQ_API_KEY"} : env[var] = "value"
    /\ Readable /\ TodayCount = 1

C15_ReadStep ==
    (pc \in {"status", "create", "gen"} /\ calls'.read_failed) =>
        /\ pc' = "crashed"
        /\ post_log' = post_log
        /\ slot' = slot /\ slot.publish = 0 /\ slot.mark = 0
        /\ calls'.publish = calls.publish /\ calls'.mark = calls.mark
        /\ request' = request

C15_Aborted == calls.read_failed => pc = "crashed"

\* C15: when reading the log fails in count_posts_today at the start of the
\* cycle or in already_posted during the content loop, the run aborts there:
\* nothing is published for that slot and the log is not written
C15_ReadFailure == []C15_Aborted /\ [][C15_ReadStep]_vars

C15_Witness ==
    /\ pc = "crashed" /\ calls.read_failed
    /\ calls.text /\ post_num = 2
    /\ slot = NoSlotCalls /\ calls.publish = 1 /\ calls.mark = 1

C18_Bounds ==
    /\ pc \in {"loop", "gen", "image", "publish", "record", "done"} =>
          /\ post_num <= DAILY_POST_LIMIT
          /\ post_num >= posts_today
    /\ pc = "gen" => attempt < MAX_TEXT_ATTEMPTS
    /\ slot.image <= 1 /\ slot.publish <= 1
    /\ polls <= max_attempts

C18_SlotStep ==
    /\ (pc = "loop" /\ pc' = "gen") =>
          post_num' > post_num /\ post_num' > posts_today
    /\ (pc \in {"gen", "image", "publish", "record"} /\ pc' \in Running) =>
          post_num' = post_num
    /\ (pc = "gen" /\ pc' = "gen") => attempt' = attempt + 1
    /\ (pc = "image" /\ pc' = "publish") =>
          slot'.image = 1 /\ polls' \in 0..max_attempts
    /\ (pc = "publish" /\ pc' = "loop") => slot'.publish = 1

C18_Ends == pc \in Running ~> pc \in Ended

\* C18: a started run ends whatever the collaborators return; it works on at
\* most DAILY_POST_LIMIT - posts_today slots with increasing numbers, and in
\* one slot makes at most 5 generate_text calls, one generate_image call of
\* at most 30 status requests and one post_to_facebook call
C18_Termination == C18_Ends /\ []C18_Bounds /\ [][C18_SlotStep]_vars

C18_Witness ==
    /\ pc = "done" /\ posts_today = 0 /\ post_num = DAILY_POST_LIMIT
    /\ image_url = None /\ result = None
    /\ slot.image = 1 /\ slot.publish = 1
    /\ calls.image = DAILY_POST_LIMIT /\ calls.publish = DAILY_POST_LIMIT

====
